---- MODULE Spec2Model ----
(***************************************************************************)
(* spi-echo: interrupt-driven byte relay.                                  *)
(*   controller: USART2 <-> SPI1 (master) bridge, two heapless SPSC queues *)
(*   peripheral: SPI1 (slave) echo, one heapless SPSC queue                *)
(* Both firmwares are modelled in one state machine; `fw` selects which    *)
(* image is running.  Handlers run step by step (one step per `if` block   *)
(* of the handler), hardware events interleave between the steps.          *)
(***************************************************************************)
EXTENDS Integers, Sequences, FiniteSets, TLC

----------------------------------------------------------------------------
(* Program constants *)

\* Queue<u16, 16>: number of slots of the ring buffer
N == 16

\* underrun dummy byte '?' written to SPI_UDRDR
UDRDR == 63

\* initial byte '!' loaded into the slave's TX FIFO
InitialTxByte == 33

(* Model bounds *)

\* length of the long input stream (units 1..MaxUnits, one after another)
MaxUnits == 20

\* length of the input stream of the echo firmware
MaxEchoUnits == 8

\* depth, in units, of the slave SPI's hardware TX and RX FIFOs
FifoDepth == 2

\* units of the long input stream on the SPI side of the bridge
MaxSpiUnits == 17

----------------------------------------------------------------------------
(* heapless::spsc::Queue<u16, N>: head, tail and N slots; one slot is      *)
(* always left free, so the queue holds at most N - 1 units.               *)

increment(val) == (val + 1) % N

\* Queue::default()
QueueDefault == [head |-> 0, tail |-> 0, buffer |-> [i \in 0..(N - 1) |-> 0]]

\* Queue::capacity()
capacity == N - 1

\* Queue::len()
len(q) == (q.tail - q.head + N) % N

\* Queue::is_empty()
is_empty(q) == q.head = q.tail

\* Queue::is_full()
is_full(q) == increment(q.tail) = q.head

\* enqueue without the full check: the unit is stored and the tail moves on,
\* so a full queue wraps around and loses what it held
enqueue_overwrite(q, val) ==
    [ok |-> TRUE,
     q  |-> [q EXCEPT !.buffer[q.tail] = val, !.tail = increment(q.tail)]]

\* enqueue that reports full one unit early: two slots are left free
enqueue_short(q, val) ==
    IF increment(q.tail) # q.head /\ increment(increment(q.tail)) # q.head
    THEN [ok |-> TRUE,
          q  |-> [q EXCEPT !.buffer[q.tail] = val, !.tail = increment(q.tail)]]
    ELSE [ok |-> FALSE, q |-> q]

\* Queue::enqueue(val): Ok(()) and the unit stored, or Err(val) and no change
enqueue(q, val) ==
    LET current_tail == q.tail
        next_tail == increment(current_tail)
    IN  IF next_tail # q.head
        THEN [ok |-> TRUE,
              q  |-> [q EXCEPT !.buffer[current_tail] = val, !.tail = next_tail]]
        ELSE [ok |-> FALSE, q |-> q]

\* dequeue without the empty check: the head moves on past the tail
dequeue_unchecked(q) ==
    [some |-> TRUE, val |-> q.buffer[q.head],
     q    |-> [q EXCEPT !.head = increment(q.head)]]

\* Queue::dequeue(): Some(unit) and the head advanced, or None and no change
dequeue(q) ==
    LET current_head == q.head
    IN  IF current_head = q.tail
        THEN [some |-> FALSE, val |-> 0, q |-> q]
        ELSE [some |-> TRUE, val |-> q.buffer[current_head],
              q    |-> [q EXCEPT !.head = increment(current_head)]]

\* the units held by the queue, oldest first
RECURSIVE ContentsFrom(_, _)
ContentsFrom(q, i) ==
    IF i = q.tail THEN <<>> ELSE <<q.buffer[i]>> \o ContentsFrom(q, increment(i))

Contents(q) == ContentsFrom(q, q.head)

\* static mut X: Option<Queue<u16, 16>>
NoneQueue == [some |-> FALSE, q |-> QueueDefault]
SomeQueue(q) == [some |-> TRUE, q |-> q]

----------------------------------------------------------------------------
(* Inputs: the units the outside world sends, in order *)

\* Scenario 1's three units 0x41, 0x42, 0x43
Scenario1Units == <<65, 66, 67>>

\* Scenario 4: a first unit, then the unit 0x99
Scenario4Units == <<65, 153>>

\* two units arriving on the SPI side of the bridge
SpiShortUnits == <<97, 98>>

\* MaxUnits distinct units 1, 2, ..., one after another: more than a queue holds
LongUnits == [i \in 1..MaxUnits |-> i]

\* MaxSpiUnits distinct units 101, 102, ... arriving on the SPI side of the
\* bridge: more than the rx buffer holds
SpiLongUnits == [i \in 1..MaxSpiUnits |-> 100 + i]

\* MaxEchoUnits distinct units for the echo firmware
EchoUnits == [i \in 1..MaxEchoUnits |-> i]

\* (firmware, units arriving on USART2, units arriving on SPI1, whether the
\* USART2 sender paces itself so that no unit overruns the previous one)
Inputs ==
    { <<"controller", Scenario1Units, SpiShortUnits, FALSE>>,
      <<"controller", LongUnits, <<>>, TRUE>>,
      <<"controller", Scenario1Units, SpiLongUnits, TRUE>>,
      <<"peripheral", <<>>, Scenario4Units, TRUE>>,
      <<"peripheral", <<>>, EchoUnits, TRUE>> }

\* the short input streams: those after which the firmware comes to rest
ShortInputs ==
    { <<"controller", Scenario1Units, SpiShortUnits, FALSE>>,
      <<"peripheral", <<>>, Scenario4Units, TRUE>> }

----------------------------------------------------------------------------
VARIABLES
    fw,                 \* which firmware image runs: "controller" or "peripheral"
    paced,              \* the USART2 sender never overruns an unread unit
    mainPc,             \* main's position in the unsafe block at the end of bring-up
    unmasked,           \* NVIC lines unmasked so far
    USART2_PERIPHERAL,  \* static mut Option<USART2>: TRUE when Some
    SPI1_PERIPHERAL,    \* static mut Option<SPI1>: TRUE when Some
    TX_BUFFER,          \* controller: units to be transmitted over SPI1
    RX_BUFFER,          \* controller: units received over SPI1
    BUFFER,             \* peripheral: units to be echoed
    usart2,             \* USART2 registers (controller)
    spi1,               \* SPI1 registers (controller: master, peripheral: slave)
    stack,              \* handlers in execution, innermost last
    pc,                 \* position of each handler
    panicked,           \* a handler hit unwrap() on None
    usartIn,            \* units still to arrive on the USART2 RX line
    spiIn,              \* units still to arrive on the SPI1 input line
    accepted,           \* per queue: units enqueued with Ok, in order
    dropped,            \* per queue: units whose enqueue returned Err, in order
    written,            \* per queue: units dequeued and written to the transmit register
    peak,               \* per queue: the most units it ever held
    wire,               \* peripheral: units shifted out on MISO, one per transfer
    window,             \* controller SPI1: DR writes since SPE was last enabled, and
                        \* whether SPE was set at the latest DR write
    producers,          \* per queue: the handlers that have called enqueue on it
    consumers,          \* per queue: the handlers that have called dequeue on it
    nWrites,            \* register writes made by the running invocation
    byIrq,              \* the running invocation was entered on a pending request
    quiet,              \* no condition of the running handler's peripheral has been
                        \* asserted since the invocation was entered
    lastOp,             \* result of the running invocation's latest queue operation
    entryConds,         \* the conditions that were asserted when the running
                        \* invocation was entered
    serviced            \* the conditions the running invocation has serviced

config  == <<fw, paced>>
statics == <<USART2_PERIPHERAL, SPI1_PERIPHERAL, TX_BUFFER, RX_BUFFER, BUFFER>>
boot    == <<mainPc, unmasked>>
hw      == <<usart2, spi1>>
exec    == <<stack, pc>>
inputs  == <<usartIn, spiIn>>
hist    == <<accepted, dropped, written, peak, wire, window, producers,
             consumers>>
invo    == <<nWrites, byIrq, quiet, lastOp, entryConds, serviced>>
vars    == <<config, statics, boot, hw, exec, panicked, inputs, hist, invo>>

Handlers == {"USART2", "SPI1"}
QueueNames == {"TX", "RX", "BUF"}

\* the queue a name stands for
QueueOf(name) ==
    CASE name = "TX" -> TX_BUFFER
      [] name = "RX" -> RX_BUFFER
      [] OTHER       -> BUFFER

Max(a, b) == IF a >= b THEN a ELSE b

----------------------------------------------------------------------------
(* State at the `unsafe` block that ends main's bring-up: the peripherals  *)
(* are configured and enabled, the statics are still None, no NVIC line is *)
(* unmasked.                                                               *)

\* controller: USART2 CR1 = RE|TE|UE|RXNEIE, ISR at its reset value (TXE set)
UsartReset == [txe |-> TRUE, rxne |-> FALSE, ore |-> FALSE, rdr |-> 0,
               txeie |-> FALSE, rxneie |-> TRUE]

\* controller: SPI1 CR2 = FRXTH|DS=7|SSOE|RXNEIE, CR1 = BR=2|MSTR (SPE clear)
\* (pend: the TX FIFO holds a unit that was not clocked out yet)
SpiMasterReset == [txe |-> TRUE, rxne |-> FALSE, bsy |-> FALSE, dr |-> 0,
                   pend |-> FALSE,
                   spe |-> FALSE, txeie |-> FALSE, rxneie |-> TRUE]

\* peripheral: SPI1 IER = RXPIE, CR1 = SPE, TX FIFO loaded with '!'
SpiSlaveReset == [rxfifo |-> <<>>, txfifo |-> <<InitialTxByte>>, udr |-> FALSE,
                  txpie |-> FALSE, rxpie |-> TRUE]

InitWith(ins) ==
    /\ \E in \in ins :
         /\ fw = in[1]
         /\ usartIn = in[2]
         /\ spiIn = in[3]
         /\ paced = in[4]
    /\ mainPc = IF fw = "controller" THEN "l178" ELSE "l105"
    /\ unmasked = {}
    /\ USART2_PERIPHERAL = FALSE
    /\ SPI1_PERIPHERAL = FALSE
    /\ TX_BUFFER = NoneQueue
    /\ RX_BUFFER = NoneQueue
    /\ BUFFER = NoneQueue
    /\ usart2 = UsartReset
    /\ spi1 = IF fw = "controller" THEN SpiMasterReset ELSE SpiSlaveReset
    /\ stack = <<>>
    /\ pc = [h \in Handlers |-> "idle"]
    /\ panicked = FALSE
    /\ accepted = [n \in QueueNames |-> <<>>]
    /\ dropped = [n \in QueueNames |-> <<>>]
    /\ written = [n \in QueueNames |-> <<>>]
    /\ peak = [n \in QueueNames |-> 0]
    /\ wire = <<>>
    /\ window = [writes |-> 0, last |-> "none"]
    /\ producers = [n \in QueueNames |-> {}]
    /\ consumers = [n \in QueueNames |-> {}]
    /\ nWrites = 0
    /\ byIrq = FALSE
    /\ quiet = FALSE
    /\ lastOp = "none"
    /\ entryConds = {}
    /\ serviced = {}

Init == InitWith(Inputs)

----------------------------------------------------------------------------
(* main: the unsafe block.  A handler preempts main, so main steps only    *)
(* while no handler is in execution.                                       *)

MainRuns == stack = << >> /\ ~panicked

\* controller main.rs 178: TX_BUFFER = Some(Queue::default())
Ctl_main_l178 ==
    /\ MainRuns /\ fw = "controller" /\ mainPc = "l178"
    /\ TX_BUFFER' = SomeQueue(QueueDefault)
    /\ mainPc' = "l179"
    /\ UNCHANGED <<config, unmasked, USART2_PERIPHERAL, SPI1_PERIPHERAL, RX_BUFFER,
                   BUFFER, hw, exec, panicked, inputs, hist, invo>>

\* controller main.rs 179: RX_BUFFER = Some(Queue::default())
Ctl_main_l179 ==
    /\ MainRuns /\ fw = "controller" /\ mainPc = "l179"
    /\ RX_BUFFER' = SomeQueue(QueueDefault)
    /\ mainPc' = "l181"
    /\ UNCHANGED <<config, unmasked, USART2_PERIPHERAL, SPI1_PERIPHERAL, TX_BUFFER,
                   BUFFER, hw, exec, panicked, inputs, hist, invo>>

\* controller main.rs 181: NVIC::unmask(Interrupt::SPI1)
Ctl_main_l181 ==
    /\ MainRuns /\ fw = "controller" /\ mainPc = "l181"
    /\ unmasked' = unmasked \cup {"SPI1"}
    /\ mainPc' = "l182"
    /\ UNCHANGED <<config, statics, hw, exec, panicked, inputs, hist, invo>>

\* controller main.rs 182: NVIC::unmask(Interrupt::USART2)
Ctl_main_l182 ==
    /\ MainRuns /\ fw = "controller" /\ mainPc = "l182"
    /\ unmasked' = unmasked \cup {"USART2"}
    /\ mainPc' = "l183"
    /\ UNCHANGED <<config, statics, hw, exec, panicked, inputs, hist, invo>>

\* controller main.rs 183: SPI1_PERIPHERAL = Some(dp.SPI1)
Ctl_main_l183 ==
    /\ MainRuns /\ fw = "controller" /\ mainPc = "l183"
    /\ SPI1_PERIPHERAL' = TRUE
    /\ mainPc' = "l184"
    /\ UNCHANGED <<config, unmasked, USART2_PERIPHERAL, TX_BUFFER, RX_BUFFER, BUFFER,
                   hw, exec, panicked, inputs, hist, invo>>

\* controller main.rs 184: USART2_PERIPHERAL = Some(dp.USART2); then loop {}
Ctl_main_l184 ==
    /\ MainRuns /\ fw = "controller" /\ mainPc = "l184"
    /\ USART2_PERIPHERAL' = TRUE
    /\ mainPc' = "loop"
    /\ UNCHANGED <<config, unmasked, SPI1_PERIPHERAL, TX_BUFFER, RX_BUFFER, BUFFER,
                   hw, exec, panicked, inputs, hist, invo>>

\* peripheral main.rs 105: BUFFER = Some(Queue::default())
Per_main_l105 ==
    /\ MainRuns /\ fw = "peripheral" /\ mainPc = "l105"
    /\ BUFFER' = SomeQueue(QueueDefault)
    /\ mainPc' = "l107"
    /\ UNCHANGED <<config, unmasked, USART2_PERIPHERAL, SPI1_PERIPHERAL, TX_BUFFER,
                   RX_BUFFER, hw, exec, panicked, inputs, hist, invo>>

\* peripheral main.rs 107: NVIC::unmask(Interrupt::SPI1)
Per_main_l107 ==
    /\ MainRuns /\ fw = "peripheral" /\ mainPc = "l107"
    /\ unmasked' = unmasked \cup {"SPI1"}
    /\ mainPc' = "l108"
    /\ UNCHANGED <<config, statics, hw, exec, panicked, inputs, hist, invo>>

\* peripheral main.rs 108: SPI1_PERIPHERAL = Some(dp.SPI1); then loop {}
Per_main_l108 ==
    /\ MainRuns /\ fw = "peripheral" /\ mainPc = "l108"
    /\ SPI1_PERIPHERAL' = TRUE
    /\ mainPc' = "loop"
    /\ UNCHANGED <<config, unmasked, USART2_PERIPHERAL, TX_BUFFER, RX_BUFFER, BUFFER,
                   hw, exec, panicked, inputs, hist, invo>>

----------------------------------------------------------------------------
(* Interrupt requests and the conditions a handler looks at *)

\* peripheral SPI1 status flags: RXP (a packet to read), TXP (room to write)
RXP(s) == s.rxfifo # <<>>
TXP(s) == Len(s.txfifo) < FifoDepth

\* the lines each firmware has a handler for
HandlersOf(f) == IF f = "controller" THEN {"USART2", "SPI1"} ELSE {"SPI1"}

\* the line's interrupt request: a flag with its interrupt-enable bit
IrqPending(h) ==
    IF fw = "controller"
    THEN IF h = "USART2"
         THEN \/ usart2.rxne /\ usart2.rxneie
              \/ usart2.ore /\ usart2.rxneie
              \/ usart2.txe /\ usart2.txeie
         ELSE \/ spi1.rxne /\ spi1.rxneie
              \/ spi1.txe /\ spi1.txeie
    ELSE /\ h = "SPI1"
         /\ \/ RXP(spi1) /\ spi1.rxpie
            \/ TXP(spi1) /\ spi1.txpie

\* none of the conditions handler `h` tests is asserted in registers u, s
NoCondition(h, u, s) ==
    IF fw = "controller"
    THEN IF h = "USART2"
         THEN ~u.txe /\ ~u.rxne /\ ~u.ore
         ELSE ~s.txe /\ ~s.rxne
    ELSE ~RXP(s) /\ ~TXP(s) /\ ~s.udr

\* the conditions of handler `h` that are asserted in registers u, s:
\* transmit-ready, receive-ready, error
Asserted(h, u, s) ==
    IF fw = "controller"
    THEN IF h = "USART2"
         THEN {c \in {"tx", "rx", "err"} :
                 \/ c = "tx" /\ u.txe
                 \/ c = "rx" /\ u.rxne
                 \/ c = "err" /\ u.ore}
         ELSE {c \in {"tx", "rx"} :
                 \/ c = "tx" /\ s.txe
                 \/ c = "rx" /\ s.rxne}
    ELSE {c \in {"tx", "rx", "err"} :
            \/ c = "tx" /\ TXP(s)
            \/ c = "rx" /\ RXP(s)
            \/ c = "err" /\ s.udr}

\* a hardware event ends the quiet of the running invocation when it
\* asserts one of the conditions its handler tests
EventQuiet ==
    /\ quiet' = (quiet /\ stack # <<>>
                 /\ NoCondition(stack[Len(stack)], usart2', spi1'))
    /\ UNCHANGED <<nWrites, byIrq, lastOp, entryConds, serviced>>

----------------------------------------------------------------------------
(* Hardware events.  The register interface is abstract: a flag is set by  *)
(* the hardware whenever its condition can arise, and cleared by the       *)
(* access the handler makes.                                               *)

\* a unit arrives on the USART2 RX line: RXNE and RDR, or ORE when the
\* previous unit was not read yet (the new unit is lost)
UsartReceive ==
    /\ fw = "controller" /\ ~panicked
    /\ usartIn # <<>>
    /\ IF ~usart2.rxne
       THEN usart2' = [usart2 EXCEPT !.rxne = TRUE, !.rdr = Head(usartIn)]
       ELSE /\ ~paced
            /\ usart2' = [usart2 EXCEPT !.ore = TRUE]
    /\ usartIn' = Tail(usartIn)
    /\ UNCHANGED <<config, statics, boot, spi1, exec, panicked, spiIn, hist>>
    /\ EventQuiet

\* USART2 moved TDR to its shift register: TXE is set again
UsartTxReady ==
    /\ fw = "controller" /\ ~panicked
    /\ ~usart2.txe
    /\ usart2' = [usart2 EXCEPT !.txe = TRUE]
    /\ UNCHANGED <<config, statics, boot, spi1, exec, panicked, inputs, hist>>
    /\ EventQuiet

\* a frame arrives on the master's MISO while the master is enabled: RXNE, DR
SpiReceive ==
    /\ fw = "controller" /\ ~panicked
    /\ spiIn # <<>>
    /\ spi1.spe
    /\ ~spi1.rxne
    /\ spi1' = [spi1 EXCEPT !.rxne = TRUE, !.dr = Head(spiIn)]
    /\ spiIn' = Tail(spiIn)
    /\ UNCHANGED <<config, statics, boot, usart2, exec, panicked, usartIn, hist>>
    /\ EventQuiet

\* the master's transmit buffer has room again: TXE
SpiTxReady ==
    /\ fw = "controller" /\ ~panicked
    /\ ~spi1.txe
    /\ spi1' = [spi1 EXCEPT !.txe = TRUE]
    /\ UNCHANGED <<config, statics, boot, usart2, exec, panicked, inputs, hist>>
    /\ EventQuiet

\* the master finished clocking out what its TX FIFO held: BSY falls
SpiTransferDone ==
    /\ fw = "controller" /\ ~panicked
    /\ spi1.bsy /\ spi1.txe
    /\ spi1' = [spi1 EXCEPT !.bsy = FALSE, !.pend = FALSE]
    /\ UNCHANGED <<config, statics, boot, usart2, exec, panicked, inputs, hist>>
    /\ EventQuiet

\* peripheral: the remote master clocks one frame.  The slave receives a
\* unit into its RX FIFO and shifts out the head of its TX FIFO; with the
\* TX FIFO empty it underruns: UDR is set and the UDRDR pattern goes out.
SlaveTransfer ==
    /\ fw = "peripheral" /\ ~panicked
    /\ spiIn # <<>>
    /\ Len(spi1.rxfifo) < FifoDepth
    /\ IF spi1.txfifo # <<>>
       THEN /\ wire' = Append(wire, Head(spi1.txfifo))
            /\ spi1' = [spi1 EXCEPT !.rxfifo = Append(@, Head(spiIn)),
                                    !.txfifo = Tail(@)]
       ELSE /\ wire' = Append(wire, UDRDR)
            /\ spi1' = [spi1 EXCEPT !.rxfifo = Append(@, Head(spiIn)),
                                    !.udr = TRUE]
    /\ spiIn' = Tail(spiIn)
    /\ UNCHANGED <<config, statics, boot, usart2, exec, panicked, usartIn,
                   accepted, dropped, written, peak, window, producers, consumers>>
    /\ EventQuiet

----------------------------------------------------------------------------
(* Interrupt dispatch *)

\* Both lines keep the reset priority, so no handler preempts another; a
\* handler is entered on its request, or with nothing asserted (a request
\* that was withdrawn before entry).
Dispatch(h) ==
    /\ ~panicked
    /\ h \in HandlersOf(fw)
    /\ h \in unmasked
    /\ stack = <<>>
    /\ stack' = <<h>>
    /\ pc' = [pc EXCEPT ![h] = "entry"]
    /\ byIrq' = IrqPending(h)
    /\ quiet' = NoCondition(h, usart2, spi1)
    /\ nWrites' = 0
    /\ lastOp' = "none"
    /\ entryConds' = Asserted(h, usart2, spi1)
    /\ serviced' = {}
    /\ UNCHANGED <<config, statics, boot, hw, panicked, inputs, hist>>

\* the handler `h` is the one in execution, at `label`
At(h, label) ==
    /\ ~panicked
    /\ stack # <<>>
    /\ stack[Len(stack)] = h
    /\ pc[h] = label

\* return from the handler
Return(h) ==
    /\ stack' = SubSeq(stack, 1, Len(stack) - 1)
    /\ pc' = [pc EXCEPT ![h] = "idle"]
    /\ nWrites' = 0
    /\ byIrq' = FALSE
    /\ quiet' = FALSE
    /\ lastOp' = "none"
    /\ entryConds' = {}
    /\ serviced' = {}

\* the handler's unwrap()s: go on to `label`, or panic on a None
Unwrap(h, set, label) ==
    /\ IF set
       THEN /\ pc' = [pc EXCEPT ![h] = label]
            /\ UNCHANGED panicked
       ELSE /\ panicked' = TRUE
            /\ UNCHANGED pc
    /\ UNCHANGED <<config, statics, boot, hw, stack, inputs, hist, invo>>

\* what a receive path reports: the enqueue's result
EnqueueOp(r) ==
    IF r.acc # <<>> THEN "enqueue_ok"
    ELSE IF r.drop # <<>> THEN "enqueue_err"
    ELSE lastOp

\* what a transmit path reports: the dequeue's result
DequeueOp(r) ==
    IF r.out # <<>> THEN "dequeue_some"
    ELSE IF r.nw > 0 THEN "dequeue_none"
    ELSE lastOp

----------------------------------------------------------------------------
(* controller: #[interrupt] fn USART2() *)

\* lines 27-37 with a filler unit written to TDR when the rx buffer is empty
Ctl_USART2_tx_filler(u, rxb) ==
    IF ~u.txe
    THEN [u |-> u, rxb |-> rxb, out |-> <<>>, nw |-> 0]
    ELSE LET r == dequeue(rxb)
         IN  IF r.some
             THEN IF is_empty(r.q)
                  THEN [u |-> [u EXCEPT !.txe = FALSE, !.txeie = FALSE],
                        rxb |-> r.q, out |-> <<r.val % 512>>, nw |-> 2]
                  ELSE [u |-> [u EXCEPT !.txe = FALSE],
                        rxb |-> r.q, out |-> <<r.val % 512>>, nw |-> 1]
             ELSE [u |-> [u EXCEPT !.txe = FALSE, !.txeie = FALSE],
                   rxb |-> r.q, out |-> <<0>>, nw |-> 2]

\* lines 28-36 without the TXE test of line 27
Ctl_USART2_tx_untested(u, rxb) ==
    LET r == dequeue(rxb)
    IN  IF r.some
        THEN [u |-> [u EXCEPT !.txe = FALSE],
              rxb |-> r.q, out |-> <<r.val % 512>>, nw |-> 1]
        ELSE [u |-> [u EXCEPT !.txeie = FALSE],
              rxb |-> r.q, out |-> <<>>, nw |-> 1]

\* lines 27-37: dequeue a unit off the rx buffer and transmit it over USART2
Ctl_USART2_tx(u, rxb) ==
    IF ~u.txe
    THEN [u |-> u, rxb |-> rxb, out |-> <<>>, nw |-> 0]
    ELSE LET r == dequeue(rxb)
         IN  IF r.some
             THEN IF is_empty(r.q)
                  THEN [u |-> [u EXCEPT !.txe = FALSE, !.txeie = FALSE],
                        rxb |-> r.q, out |-> <<r.val % 512>>, nw |-> 2]
                  ELSE [u |-> [u EXCEPT !.txe = FALSE],
                        rxb |-> r.q, out |-> <<r.val % 512>>, nw |-> 1]
             ELSE [u |-> [u EXCEPT !.txeie = FALSE],
                   rxb |-> r.q, out |-> <<>>, nw |-> 1]

\* lines 40-50 without lines 47-48: SPI1 is neither armed nor enabled
Ctl_USART2_rx_unarmed(u, s, txb) ==
    IF ~u.rxne
    THEN [u |-> u, s |-> s, txb |-> txb, acc |-> <<>>, drop |-> <<>>, nw |-> 0]
    ELSE LET e == enqueue(txb, u.rdr)
         IN  [u |-> [u EXCEPT !.rxne = FALSE], s |-> s, txb |-> e.q,
              acc |-> IF e.ok THEN <<u.rdr>> ELSE <<>>,
              drop |-> IF e.ok THEN <<>> ELSE <<u.rdr>>, nw |-> 0]

\* lines 40-50: read the incoming unit from USART2 and queue it onto the tx
\* buffer; on success arm SPI1's TXE interrupt and enable SPI1 (the master
\* starts clocking out a unit its TX FIFO still holds: BSY)
Ctl_USART2_rx(u, s, txb) ==
    IF ~u.rxne
    THEN [u |-> u, s |-> s, txb |-> txb, acc |-> <<>>, drop |-> <<>>, nw |-> 0]
    ELSE LET received_byte == u.rdr
             e == enqueue(txb, received_byte)
         IN  IF e.ok
             THEN [u |-> [u EXCEPT !.rxne = FALSE],
                   s |-> [s EXCEPT !.txeie = TRUE, !.spe = TRUE,
                                   !.bsy = s.bsy \/ s.pend],
                   txb |-> e.q, acc |-> <<received_byte>>, drop |-> <<>>, nw |-> 2]
             ELSE [u |-> [u EXCEPT !.rxne = FALSE],
                   s |-> s,
                   txb |-> e.q, acc |-> <<>>, drop |-> <<received_byte>>, nw |-> 0]

\* lines 51-53 left out: an overrun is never acknowledged
Ctl_USART2_ore_ignore(u) == [u |-> u, nw |-> 0]

\* lines 51-53: acknowledge an overrun
Ctl_USART2_ore(u) ==
    IF u.ore
    THEN [u |-> [u EXCEPT !.ore = FALSE], nw |-> 1]
    ELSE [u |-> u, nw |-> 0]

\* lines 21-24 and 58-61: the four unwrap()s
Ctl_statics_set ==
    /\ USART2_PERIPHERAL /\ SPI1_PERIPHERAL
    /\ TX_BUFFER.some /\ RX_BUFFER.some

Ctl_USART2_entry ==
    /\ fw = "controller" /\ At("USART2", "entry")
    /\ Unwrap("USART2", Ctl_statics_set, "tx")

Ctl_USART2_tx_step ==
    /\ fw = "controller" /\ At("USART2", "tx")
    /\ LET r == Ctl_USART2_tx(usart2, RX_BUFFER.q)
       IN  /\ usart2' = r.u
           /\ RX_BUFFER' = SomeQueue(r.rxb)
           /\ written' = [written EXCEPT !["RX"] = @ \o r.out]
           /\ nWrites' = nWrites + r.nw
           /\ lastOp' = DequeueOp(r)
           /\ serviced' = IF r.nw > 0 THEN serviced \cup {"tx"} ELSE serviced
           /\ consumers' = IF r.nw > 0
                           THEN [consumers EXCEPT !["RX"] = @ \cup {"USART2"}]
                           ELSE consumers
    /\ pc' = [pc EXCEPT !["USART2"] = "rx"]
    /\ UNCHANGED <<config, USART2_PERIPHERAL, SPI1_PERIPHERAL, TX_BUFFER, BUFFER,
                   boot, spi1, stack, panicked, inputs, accepted, dropped, peak,
                   wire, window, byIrq, quiet, entryConds, producers>>

Ctl_USART2_rx_step ==
    /\ fw = "controller" /\ At("USART2", "rx")
    /\ LET r == Ctl_USART2_rx(usart2, spi1, TX_BUFFER.q)
       IN  /\ usart2' = r.u
           /\ spi1' = r.s
           /\ TX_BUFFER' = SomeQueue(r.txb)
           /\ accepted' = [accepted EXCEPT !["TX"] = @ \o r.acc]
           /\ dropped' = [dropped EXCEPT !["TX"] = @ \o r.drop]
           /\ peak' = [peak EXCEPT !["TX"] = Max(@, len(r.txb))]
           /\ nWrites' = nWrites + r.nw
           /\ lastOp' = EnqueueOp(r)
           /\ serviced' = IF r.acc # <<>> \/ r.drop # <<>> THEN serviced \cup {"rx"} ELSE serviced
           /\ producers' = IF r.acc # <<>> \/ r.drop # <<>>
                           THEN [producers EXCEPT !["TX"] = @ \cup {"USART2"}]
                           ELSE producers
           /\ window' = IF ~spi1.spe /\ r.s.spe
                        THEN [window EXCEPT !.writes = 0]
                        ELSE window
    /\ pc' = [pc EXCEPT !["USART2"] = "ore"]
    /\ UNCHANGED <<config, USART2_PERIPHERAL, SPI1_PERIPHERAL, RX_BUFFER, BUFFER,
                   boot, stack, panicked, inputs, written, wire, byIrq, quiet, entryConds, consumers>>

Ctl_USART2_ore_step ==
    /\ fw = "controller" /\ At("USART2", "ore")
    /\ LET r == Ctl_USART2_ore(usart2)
       IN  /\ usart2' = r.u
           /\ nWrites' = nWrites + r.nw
           /\ serviced' = IF r.nw > 0 THEN serviced \cup {"err"} ELSE serviced
    /\ pc' = [pc EXCEPT !["USART2"] = "ret"]
    /\ UNCHANGED <<config, statics, boot, spi1, stack, panicked, inputs, hist,
                   byIrq, quiet, lastOp, entryConds>>

Ctl_USART2_ret ==
    /\ fw = "controller" /\ At("USART2", "ret")
    /\ Return("USART2")
    /\ UNCHANGED <<config, statics, boot, hw, panicked, inputs, hist>>

----------------------------------------------------------------------------
(* controller: #[interrupt] fn SPI1() *)

\* lines 64-77 with the dequeued unit written to DR twice
Ctl_SPI1_tx_twice(s, txb) ==
    IF ~s.txe
    THEN [s |-> s, txb |-> txb, out |-> <<>>, nw |-> 0, next |-> "rx"]
    ELSE LET r == dequeue(txb)
         IN  IF r.some
             THEN [s |-> [s EXCEPT !.txe = FALSE, !.pend = TRUE,
                                   !.bsy = s.bsy \/ s.spe],
                   txb |-> r.q, out |-> <<r.val, r.val>>, nw |-> 2, next |-> "bsy"]
             ELSE [s |-> [s EXCEPT !.spe = FALSE, !.txeie = FALSE],
                   txb |-> r.q, out |-> <<>>, nw |-> 2, next |-> "rx"]

\* lines 64-67 and 74-77: dequeue a unit off the tx buffer; Some: write it to
\* DR (the transfer starts when the master is enabled) and go on to the busy
\* wait; None: disable SPI1 and its TXE interrupt
Ctl_SPI1_tx(s, txb) ==
    IF ~s.txe
    THEN [s |-> s, txb |-> txb, out |-> <<>>, nw |-> 0, next |-> "rx"]
    ELSE LET r == dequeue(txb)
         IN  IF r.some
             THEN [s |-> [s EXCEPT !.txe = FALSE, !.pend = TRUE,
                                   !.bsy = s.bsy \/ s.spe],
                   txb |-> r.q, out |-> <<r.val>>, nw |-> 1, next |-> "bsy"]
             ELSE [s |-> [s EXCEPT !.spe = FALSE, !.txeie = FALSE],
                   txb |-> r.q, out |-> <<>>, nw |-> 2, next |-> "rx"]

\* lines 69-72 without the is_empty test: TXEIE is left as it is
Ctl_SPI1_disable_keep(s, txb) ==
    [s |-> [s EXCEPT !.spe = FALSE], nw |-> 1]

\* lines 69-72 with the is_empty test taken as true: TXEIE is always cleared
Ctl_SPI1_disable_always(s, txb) ==
    [s |-> [s EXCEPT !.spe = FALSE, !.txeie = FALSE], nw |-> 2]

\* lines 69-72, once the busy wait of line 68 is over: disable SPI1, and its
\* TXE interrupt when the tx buffer is empty
Ctl_SPI1_disable(s, txb) ==
    IF is_empty(txb)
    THEN [s |-> [s EXCEPT !.spe = FALSE, !.txeie = FALSE], nw |-> 2]
    ELSE [s |-> [s EXCEPT !.spe = FALSE], nw |-> 1]

\* lines 82-87 without line 85: USART2's TXE interrupt is not armed
Ctl_SPI1_rx_unarmed(s, u, rxb) ==
    IF ~s.rxne
    THEN [s |-> s, u |-> u, rxb |-> rxb, acc |-> <<>>, drop |-> <<>>, nw |-> 0]
    ELSE LET e == enqueue(rxb, s.dr)
         IN  [s |-> [s EXCEPT !.rxne = FALSE], u |-> u, rxb |-> e.q,
              acc |-> IF e.ok THEN <<s.dr>> ELSE <<>>,
              drop |-> IF e.ok THEN <<>> ELSE <<s.dr>>, nw |-> 0]

\* lines 82-87 with an enqueue that never fails: on a full rx buffer the
\* unit is stored over what the buffer held
Ctl_SPI1_rx_overwrite(s, u, rxb) ==
    IF ~s.rxne
    THEN [s |-> s, u |-> u, rxb |-> rxb, acc |-> <<>>, drop |-> <<>>, nw |-> 0]
    ELSE [s |-> [s EXCEPT !.rxne = FALSE],
          u |-> [u EXCEPT !.txeie = TRUE],
          rxb |-> enqueue_overwrite(rxb, s.dr).q,
          acc |-> <<s.dr>>, drop |-> <<>>, nw |-> 1]

\* lines 82-87 with the oldest queued unit discarded first: the receive path
\* dequeues from the rx buffer before it enqueues
Ctl_SPI1_rx_make_room(s, u, rxb) ==
    IF ~s.rxne
    THEN [s |-> s, u |-> u, rxb |-> rxb, acc |-> <<>>, drop |-> <<>>, nw |-> 0]
    ELSE LET e == enqueue(dequeue(rxb).q, s.dr)
         IN  [s |-> [s EXCEPT !.rxne = FALSE],
              u |-> [u EXCEPT !.txeie = TRUE],
              rxb |-> e.q, acc |-> <<s.dr>>, drop |-> <<>>, nw |-> 1]

\* lines 82-87: read the incoming unit from SPI1 and queue it onto the rx
\* buffer; on success arm USART2's TXE interrupt
Ctl_SPI1_rx(s, u, rxb) ==
    IF ~s.rxne
    THEN [s |-> s, u |-> u, rxb |-> rxb, acc |-> <<>>, drop |-> <<>>, nw |-> 0]
    ELSE LET received_byte == s.dr
             e == enqueue(rxb, received_byte)
         IN  IF e.ok
             THEN [s |-> [s EXCEPT !.rxne = FALSE],
                   u |-> [u EXCEPT !.txeie = TRUE],
                   rxb |-> e.q, acc |-> <<received_byte>>, drop |-> <<>>, nw |-> 1]
             ELSE [s |-> [s EXCEPT !.rxne = FALSE],
                   u |-> u,
                   rxb |-> e.q, acc |-> <<>>, drop |-> <<received_byte>>, nw |-> 0]

Ctl_SPI1_entry ==
    /\ fw = "controller" /\ At("SPI1", "entry")
    /\ Unwrap("SPI1", Ctl_statics_set, "tx")

Ctl_SPI1_tx_step ==
    /\ fw = "controller" /\ At("SPI1", "tx")
    /\ LET r == Ctl_SPI1_tx(spi1, TX_BUFFER.q)
       IN  /\ spi1' = r.s
           /\ TX_BUFFER' = SomeQueue(r.txb)
           /\ written' = [written EXCEPT !["TX"] = @ \o r.out]
           /\ nWrites' = nWrites + r.nw
           /\ lastOp' = DequeueOp(r)
           /\ serviced' = IF r.nw > 0 THEN serviced \cup {"tx"} ELSE serviced
           /\ consumers' = IF r.nw > 0
                           THEN [consumers EXCEPT !["TX"] = @ \cup {"SPI1"}]
                           ELSE consumers
           /\ window' = IF r.out = <<>>
                        THEN window
                        ELSE IF spi1.spe
                             THEN [writes |-> window.writes + 1, last |-> "enabled"]
                             ELSE [window EXCEPT !.last = "disabled"]
           /\ pc' = [pc EXCEPT !["SPI1"] = r.next]
    /\ UNCHANGED <<config, USART2_PERIPHERAL, SPI1_PERIPHERAL, RX_BUFFER, BUFFER,
                   boot, usart2, stack, panicked, inputs, accepted, dropped, peak,
                   wire, byIrq, quiet, entryConds, producers>>

\* lines 69-72 without the busy wait of line 68
Ctl_SPI1_bsy_step_nowait ==
    /\ fw = "controller" /\ At("SPI1", "bsy")
    /\ LET r == Ctl_SPI1_disable(spi1, TX_BUFFER.q)
       IN  /\ spi1' = r.s
           /\ nWrites' = nWrites + r.nw
    /\ pc' = [pc EXCEPT !["SPI1"] = "rx"]
    /\ UNCHANGED <<config, statics, boot, usart2, stack, panicked, inputs, hist,
                   byIrq, quiet, lastOp, entryConds, serviced>>

\* line 68: while spi1.sr.read().bsy().bit_is_set() {}, then lines 69-72
Ctl_SPI1_bsy_step ==
    /\ fw = "controller" /\ At("SPI1", "bsy")
    /\ ~spi1.bsy
    /\ LET r == Ctl_SPI1_disable(spi1, TX_BUFFER.q)
       IN  /\ spi1' = r.s
           /\ nWrites' = nWrites + r.nw
    /\ pc' = [pc EXCEPT !["SPI1"] = "rx"]
    /\ UNCHANGED <<config, statics, boot, usart2, stack, panicked, inputs, hist,
                   byIrq, quiet, lastOp, entryConds, serviced>>

Ctl_SPI1_rx_step ==
    /\ fw = "controller" /\ At("SPI1", "rx")
    /\ LET r == Ctl_SPI1_rx(spi1, usart2, RX_BUFFER.q)
       IN  /\ spi1' = r.s
           /\ usart2' = r.u
           /\ RX_BUFFER' = SomeQueue(r.rxb)
           /\ accepted' = [accepted EXCEPT !["RX"] = @ \o r.acc]
           /\ dropped' = [dropped EXCEPT !["RX"] = @ \o r.drop]
           /\ peak' = [peak EXCEPT !["RX"] = Max(@, len(r.rxb))]
           /\ nWrites' = nWrites + r.nw
           /\ lastOp' = EnqueueOp(r)
           /\ serviced' = IF r.acc # <<>> \/ r.drop # <<>> THEN serviced \cup {"rx"} ELSE serviced
           /\ producers' = IF r.acc # <<>> \/ r.drop # <<>>
                           THEN [producers EXCEPT !["RX"] = @ \cup {"SPI1"}]
                           ELSE producers
    /\ pc' = [pc EXCEPT !["SPI1"] = "ret"]
    /\ UNCHANGED <<config, USART2_PERIPHERAL, SPI1_PERIPHERAL, TX_BUFFER, BUFFER,
                   boot, stack, panicked, inputs, written, wire, window, byIrq,
                   quiet, entryConds, consumers>>

Ctl_SPI1_ret ==
    /\ fw = "controller" /\ At("SPI1", "ret")
    /\ Return("SPI1")
    /\ UNCHANGED <<config, statics, boot, hw, panicked, inputs, hist>>

----------------------------------------------------------------------------
(* peripheral: #[interrupt] fn SPI1() *)

\* lines 19-25: read the received unit and queue it; on success arm TXP
Per_SPI1_rx(s, b) ==
    IF ~RXP(s)
    THEN [s |-> s, b |-> b, acc |-> <<>>, drop |-> <<>>, nw |-> 0]
    ELSE LET received_byte == Head(s.rxfifo) % 65536
             e == enqueue(b, received_byte)
         IN  IF e.ok
             THEN [s |-> [s EXCEPT !.rxfifo = Tail(@), !.txpie = TRUE],
                   b |-> e.q, acc |-> <<received_byte>>, drop |-> <<>>, nw |-> 1]
             ELSE [s |-> [s EXCEPT !.rxfifo = Tail(@)],
                   b |-> e.q, acc |-> <<>>, drop |-> <<received_byte>>, nw |-> 0]

\* lines 29-41: dequeue a unit and stage it in the TX FIFO; disarm TXP when
\* the queue is, or was, empty
Per_SPI1_tx(s, b) ==
    IF ~TXP(s)
    THEN [s |-> s, b |-> b, out |-> <<>>, nw |-> 0]
    ELSE LET r == dequeue(b)
         IN  IF r.some
             THEN IF is_empty(r.q)
                  THEN [s |-> [s EXCEPT !.txfifo = Append(@, r.val % 256),
                                        !.txpie = FALSE],
                        b |-> r.q, out |-> <<r.val % 256>>, nw |-> 2]
                  ELSE [s |-> [s EXCEPT !.txfifo = Append(@, r.val % 256)],
                        b |-> r.q, out |-> <<r.val % 256>>, nw |-> 1]
             ELSE [s |-> [s EXCEPT !.txpie = FALSE],
                   b |-> r.q, out |-> <<>>, nw |-> 1]

\* lines 44-46 left out: the underrun error is never reset
Per_SPI1_udr_ignore(s) == [s |-> s, nw |-> 0]

\* lines 44-46: reset the underrun error
Per_SPI1_udr(s) ==
    IF s.udr
    THEN [s |-> [s EXCEPT !.udr = FALSE], nw |-> 1]
    ELSE [s |-> s, nw |-> 0]

\* lines 16-17: the two unwrap()s
Per_statics_set == SPI1_PERIPHERAL /\ BUFFER.some

Per_SPI1_entry ==
    /\ fw = "peripheral" /\ At("SPI1", "entry")
    /\ Unwrap("SPI1", Per_statics_set, "rx")

Per_SPI1_rx_step ==
    /\ fw = "peripheral" /\ At("SPI1", "rx")
    /\ LET r == Per_SPI1_rx(spi1, BUFFER.q)
       IN  /\ spi1' = r.s
           /\ BUFFER' = SomeQueue(r.b)
           /\ accepted' = [accepted EXCEPT !["BUF"] = @ \o r.acc]
           /\ dropped' = [dropped EXCEPT !["BUF"] = @ \o r.drop]
           /\ peak' = [peak EXCEPT !["BUF"] = Max(@, len(r.b))]
           /\ nWrites' = nWrites + r.nw
           /\ lastOp' = EnqueueOp(r)
           /\ serviced' = IF r.acc # <<>> \/ r.drop # <<>> THEN serviced \cup {"rx"} ELSE serviced
           /\ producers' = IF r.acc # <<>> \/ r.drop # <<>>
                           THEN [producers EXCEPT !["BUF"] = @ \cup {"SPI1"}]
                           ELSE producers
    /\ pc' = [pc EXCEPT !["SPI1"] = "tx"]
    /\ UNCHANGED <<config, USART2_PERIPHERAL, SPI1_PERIPHERAL, TX_BUFFER, RX_BUFFER,
                   boot, usart2, stack, panicked, inputs, written, wire, window,
                   byIrq, quiet, entryConds, consumers>>

Per_SPI1_tx_step ==
    /\ fw = "peripheral" /\ At("SPI1", "tx")
    /\ LET r == Per_SPI1_tx(spi1, BUFFER.q)
       IN  /\ spi1' = r.s
           /\ BUFFER' = SomeQueue(r.b)
           /\ written' = [written EXCEPT !["BUF"] = @ \o r.out]
           /\ nWrites' = nWrites + r.nw
           /\ lastOp' = DequeueOp(r)
           /\ serviced' = IF r.nw > 0 THEN serviced \cup {"tx"} ELSE serviced
           /\ consumers' = IF r.nw > 0
                           THEN [consumers EXCEPT !["BUF"] = @ \cup {"SPI1"}]
                           ELSE consumers
    /\ pc' = [pc EXCEPT !["SPI1"] = "udr"]
    /\ UNCHANGED <<config, USART2_PERIPHERAL, SPI1_PERIPHERAL, TX_BUFFER, RX_BUFFER,
                   boot, usart2, stack, panicked, inputs, accepted, dropped, peak,
                   wire, window, byIrq, quiet, entryConds, producers>>

Per_SPI1_udr_step ==
    /\ fw = "peripheral" /\ At("SPI1", "udr")
    /\ LET r == Per_SPI1_udr(spi1)
       IN  /\ spi1' = r.s
           /\ nWrites' = nWrites + r.nw
           /\ serviced' = IF r.nw > 0 THEN serviced \cup {"err"} ELSE serviced
    /\ pc' = [pc EXCEPT !["SPI1"] = "ret"]
    /\ UNCHANGED <<config, statics, boot, usart2, stack, panicked, inputs, hist,
                   byIrq, quiet, lastOp, entryConds>>

Per_SPI1_ret ==
    /\ fw = "peripheral" /\ At("SPI1", "ret")
    /\ Return("SPI1")
    /\ UNCHANGED <<config, statics, boot, hw, panicked, inputs, hist>>

----------------------------------------------------------------------------
Main ==
    \/ Ctl_main_l178 \/ Ctl_main_l179 \/ Ctl_main_l181
    \/ Ctl_main_l182 \/ Ctl_main_l183 \/ Ctl_main_l184
    \/ Per_main_l105 \/ Per_main_l107 \/ Per_main_l108

Hardware ==
    \/ UsartReceive \/ UsartTxReady
    \/ SpiReceive \/ SpiTxReady \/ SpiTransferDone
    \/ SlaveTransfer

Ctl_USART2 ==
    \/ Ctl_USART2_entry \/ Ctl_USART2_tx_step \/ Ctl_USART2_rx_step
    \/ Ctl_USART2_ore_step \/ Ctl_USART2_ret

Ctl_SPI1 ==
    \/ Ctl_SPI1_entry \/ Ctl_SPI1_tx_step \/ Ctl_SPI1_bsy_step
    \/ Ctl_SPI1_rx_step \/ Ctl_SPI1_ret

Per_SPI1 ==
    \/ Per_SPI1_entry \/ Per_SPI1_rx_step \/ Per_SPI1_tx_step
    \/ Per_SPI1_udr_step \/ Per_SPI1_ret

HandlerStep == Ctl_USART2 \/ Ctl_SPI1 \/ Per_SPI1

Next ==
    \/ Main
    \/ Hardware
    \/ \E h \in Handlers : Dispatch(h)
    \/ HandlerStep

Spec == Init /\ [][Next]_vars

----------------------------------------------------------------------------
(* Properties *)

\* no handler is in execution
Idle == stack = <<>>

\* the units a queue holds, counted from what went in and what came out
Held(n) == Len(accepted[n]) - Len(written[n])

\* C1: whenever no handler is executing, a transmit-interrupt-enable bit is
\* set exactly when its outbound queue is non-empty: controller SPI1 TXEIE
\* and TX_BUFFER, controller USART2 TXEIE and RX_BUFFER, peripheral SPI1
\* TXPIE and BUFFER.
C1_FlowControl ==
    Idle =>
        IF fw = "controller"
        THEN /\ spi1.txeie <=> ~is_empty(TX_BUFFER.q)
             /\ usart2.txeie <=> ~is_empty(RX_BUFFER.q)
        ELSE spi1.txpie <=> ~is_empty(BUFFER.q)

\* C1 witness: the controller at rest with both queues holding units and
\* both enable bits set, after units were already relayed in both directions
C1_Witness ==
    /\ fw = "controller" /\ Idle
    /\ spi1.txeie /\ ~is_empty(TX_BUFFER.q) /\ written["TX"] # <<>>
    /\ usart2.txeie /\ ~is_empty(RX_BUFFER.q) /\ written["RX"] # <<>>

\* C2: a queue never holds more units than its capacity, and the units
\* dequeued so far followed by the units still queued are exactly the units
\* accepted, in the order they were accepted (strict FIFO).
C2_CapacityFifo ==
    \A n \in QueueNames :
        /\ Held(n) >= 0
        /\ Held(n) <= capacity
        /\ Len(Contents(QueueOf(n).q)) = Held(n)
        /\ accepted[n] = written[n] \o Contents(QueueOf(n).q)

\* C2 witness: a full queue that has wrapped around the ring: units were
\* dropped, units were dequeued, and the queue filled up again
C2_Witness ==
    /\ Held("TX") = capacity
    /\ dropped["TX"] # <<>>
    /\ Len(written["TX"]) >= 2
    /\ TX_BUFFER.q.tail < TX_BUFFER.q.head

\* C3: an enqueue on a full queue leaves the queue as it was and reports the
\* unit dropped; a dequeue on an empty queue leaves the queue as it was and
\* reports empty; the handler goes on in both cases, without a panic.
C3_FullEmptyNoChange ==
    [][ /\ ( /\ At("USART2", "rx") /\ pc'["USART2"] # "rx"
             /\ usart2.rxne /\ Held("TX") = capacity )
           => /\ TX_BUFFER' = TX_BUFFER
              /\ accepted' = accepted
              /\ dropped'["TX"] = Append(dropped["TX"], usart2.rdr)
              /\ lastOp' = "enqueue_err"
              /\ pc'["USART2"] = "ore" /\ ~panicked'
        /\ ( /\ fw = "controller" /\ At("SPI1", "tx") /\ pc'["SPI1"] # "tx"
             /\ spi1.txe /\ Held("TX") = 0 )
           => /\ TX_BUFFER' = TX_BUFFER
              /\ written' = written
              /\ lastOp' = "dequeue_none"
              /\ pc'["SPI1"] = "rx" /\ ~panicked'
      ]_vars

\* C3 witness: the SPI1 handler has just found the tx buffer empty, in a run
\* in which the USART2 handler had units dropped on a full tx buffer
C3_Witness ==
    /\ fw = "controller" /\ At("SPI1", "rx")
    /\ lastOp = "dequeue_none"
    /\ dropped["TX"] # <<>>

\* the statics the running firmware's handlers unwrap
StaticsSet == IF fw = "controller" THEN Ctl_statics_set ELSE Per_statics_set

\* C4: the peripheral handles and the queues are written before a handler
\* can run: no handler entered on an interrupt request runs while a handle
\* or a queue is still None, and none reaches the unwrap-on-None panic.
C4_BringUpOrdering ==
    /\ (stack # <<>> /\ byIrq) => StaticsSet
    /\ ~(panicked /\ byIrq)

\* C5: SPI1 is enabled only by a successful enqueue on the USART2 receive
\* path; every unit the SPI1 handler writes to DR is written while SPI1 is
\* enabled, at most one unit per enabled window; and SPI1 is disabled again
\* once the handler that wrote a unit is past its transmit path.
C5_EnabledWindow ==
    [][ fw = "controller"
        => /\ (~spi1.spe /\ spi1'.spe)
              => (At("USART2", "rx") /\ lastOp' = "enqueue_ok")
           /\ window'.last # "disabled"
           /\ window'.writes <= 1
           /\ (pc'["SPI1"] = "rx" /\ lastOp' = "dequeue_some") => ~spi1'.spe
      ]_vars

\* C6: a handler invoked with none of the conditions it tests asserted
\* (transmit-ready, receive-ready and error flags all false, at entry and
\* while it runs) changes no queue, no interrupt-enable bit and no
\* peripheral-enable bit and writes no register, at any of its steps, from
\* whatever state it is invoked in.
C6_Idempotence ==
    [][ (stack # <<>> /\ quiet /\ pc' # pc)
        => /\ UNCHANGED <<TX_BUFFER, RX_BUFFER, BUFFER, hw, hist>>
           /\ nWrites = 0 /\ nWrites' = 0
      ]_vars

\* C6 witness: the USART2 handler has run to its end with TXE, RXNE and ORE
\* all clear while its rx buffer held units and its TXE interrupt was armed
C6_Witness ==
    /\ fw = "controller" /\ At("USART2", "ret") /\ quiet
    /\ usart2.txeie /\ ~is_empty(RX_BUFFER.q)

\* the controller at rest after receive events on USART2 and before any unit
\* was taken off the tx buffer
Undrained == fw = "controller" /\ Idle /\ written["TX"] = <<>>

\* C7 (as the code has it): from the empty queue of bring-up, 20 receive
\* events with no draining leave the first 15 units accepted and the last 5
\* dropped, and the queue holds 15 units: a Queue<u16, 16> holds N - 1.
C7_Capacity15 ==
    (Undrained /\ Len(accepted["TX"]) + Len(dropped["TX"]) = 20)
    => /\ accepted["TX"] = SubSeq(LongUnits, 1, 15)
       /\ dropped["TX"] = SubSeq(LongUnits, 16, 20)
       /\ len(TX_BUFFER.q) = 15
       /\ Contents(TX_BUFFER.q) = accepted["TX"]

\* C7 witness: the tx buffer is full after the 20 receive events, undrained
C7_Witness ==
    /\ Undrained
    /\ Len(accepted["TX"]) + Len(dropped["TX"]) = 20
    /\ is_full(TX_BUFFER.q)
    /\ mainPc = "loop"

\* C7 as stated: after 20 receive events with no draining the first 16 units
\* are accepted, the last 4 are dropped, and the queue holds 16 units.
C7_Capacity16 ==
    (Undrained /\ Len(accepted["TX"]) + Len(dropped["TX"]) = 20)
    => /\ accepted["TX"] = SubSeq(LongUnits, 1, 16)
       /\ dropped["TX"] = SubSeq(LongUnits, 17, 20)
       /\ len(TX_BUFFER.q) = 16

\* C8 (as the code has it): after the USART2 handler serviced the first k of
\* the receive events carrying 0x41, 0x42, 0x43, with no SPI1 transmit in
\* between, the USART-to-SPI queue (TX_BUFFER) holds those k units in order
\* and SPI1's TXEIE is set: after the first, the second and the third.
C8_Scenario1 ==
    \A k \in 1..Len(Scenario1Units) :
        (Undrained /\ accepted["TX"] = SubSeq(Scenario1Units, 1, k))
        => /\ Contents(TX_BUFFER.q) = SubSeq(Scenario1Units, 1, k)
           /\ spi1.txeie

\* C8 witness: the three units are queued in the tx buffer, TXEIE set
C8_Witness ==
    /\ Undrained
    /\ Contents(TX_BUFFER.q) = Scenario1Units
    /\ dropped["TX"] = <<>>
    /\ spi1.txeie

\* C8 as stated: after the three receive events it is the SPI-to-USART queue
\* (RX_BUFFER) that holds 0x41, 0x42, 0x43, with SPI1's TXEIE set.
C8_Scenario1_SyncToAsync ==
    (Undrained /\ accepted["TX"] = Scenario1Units)
    => /\ Contents(RX_BUFFER.q) = Scenario1Units
       /\ spi1.txeie

\* C9: from Scenario 1's state (0x41, 0x42, 0x43 queued together, TXEIE set),
\* after k transmit-ready events serviced by the SPI1 handler the units
\* written to DR are the first k of 0x41, 0x42, 0x43 in order, and TXEIE is
\* still set after the first and the second event and clear after the third.
C9_Scenario2 ==
    (/\ fw = "controller" /\ Idle
     /\ accepted["TX"] = Scenario1Units /\ peak["TX"] = Len(Scenario1Units))
    => /\ written["TX"] = SubSeq(Scenario1Units, 1, Len(written["TX"]))
       /\ spi1.txeie <=> Len(written["TX"]) < Len(Scenario1Units)

\* C9 witness: the three units were queued together and all three have been
\* written to DR; TXEIE is clear
C9_Witness ==
    /\ fw = "controller" /\ Idle
    /\ peak["TX"] = Len(Scenario1Units)
    /\ written["TX"] = Scenario1Units
    /\ ~spi1.txeie

\* C10: when the echo firmware receives the unit 0x99 with nothing staged in
\* its TX FIFO, the unit shifted out for that transfer is the placeholder
\* UDRDR ('?'), not 0x99, and the underrun flag is raised; the handler that
\* finds the flag raised clears it; and 0x99 is staged only once that
\* transfer is over, so it can go out only on a later one.
C10_EchoUnderrun ==
    [][ fw = "peripheral"
        => /\ ( /\ spiIn # <<>> /\ spiIn' = Tail(spiIn)
                /\ Head(spiIn) = 153 /\ spi1.txfifo = <<>> )
              => /\ wire' = Append(wire, UDRDR)
                 /\ wire'[Len(wire')] # 153
                 /\ spi1'.udr
                 /\ 153 \notin {written'["BUF"][i] : i \in 1..Len(written'["BUF"])}
           /\ (At("SPI1", "udr") /\ spi1.udr /\ pc'["SPI1"] # "udr")
              => (~spi1'.udr /\ pc'["SPI1"] = "ret" /\ ~panicked')
           /\ ( /\ written'["BUF"] # written["BUF"]
                /\ written'["BUF"][Len(written'["BUF"])] = 153 )
              => /\ accepted["BUF"] = Scenario4Units
                 /\ Len(wire) >= Len(Scenario4Units)
                 /\ \A i \in 1..Len(wire) : wire[i] # 153
      ]_vars

\* C10 witness: the transfer that brought 0x99 went out as '?' after the
\* initial '!', the handler has cleared the underrun flag, and 0x99 has been
\* staged since
C10_Witness ==
    /\ fw = "peripheral" /\ Idle
    /\ wire = <<InitialTxByte, UDRDR>>
    /\ ~spi1.udr
    /\ written["BUF"] = Scenario4Units
    /\ spi1.txfifo = Scenario4Units

ProducerOf(n) == IF n = "TX" THEN "USART2" ELSE "SPI1"
ConsumerOf(n) == IF n = "RX" THEN "USART2" ELSE "SPI1"

\* a step changes a queue only as the enqueue of its producer (the tail
\* moves) or the dequeue of its consumer (the head moves), or as main's
\* construction of the queue before any line is unmasked
QueueChangesByRole(n) ==
    /\ QueueOf(n).q.tail' # QueueOf(n).q.tail
       => (stack # <<>> /\ stack[Len(stack)] = ProducerOf(n)
           /\ producers'[n] = {ProducerOf(n)})
    /\ QueueOf(n).q.head' # QueueOf(n).q.head
       => (stack # <<>> /\ stack[Len(stack)] = ConsumerOf(n)
           /\ consumers'[n] = {ConsumerOf(n)})
    /\ QueueOf(n)' # QueueOf(n)
       => \/ stack # <<>> /\ stack' = stack /\ pc' # pc
          \/ stack = <<>> /\ unmasked = {} /\ mainPc' # mainPc

\* C12 (as the code has it): every queue has at most one handler that
\* enqueues and at most one that dequeues, and nothing else changes a queue
\* once a line is unmasked; the two handlers are distinct for the bridge's
\* TX_BUFFER and RX_BUFFER, while the echo's BUFFER is enqueued and dequeued
\* by the one SPI1 handler.
C12_SpscRoles ==
    [][ \A n \in QueueNames :
          /\ QueueChangesByRole(n)
          /\ producers'[n] \subseteq {ProducerOf(n)}
          /\ consumers'[n] \subseteq {ConsumerOf(n)}
          /\ (n # "BUF") => (producers'[n] \cap consumers'[n] = {})
      ]_vars

\* C12 witness: the bridge at rest after both of its queues were enqueued by
\* one handler and dequeued by the other
C12_Witness ==
    /\ fw = "controller" /\ Idle /\ mainPc = "loop"
    /\ producers["TX"] = {"USART2"} /\ consumers["TX"] = {"SPI1"}
    /\ producers["RX"] = {"SPI1"} /\ consumers["RX"] = {"USART2"}
    /\ written["TX"] # <<>> /\ written["RX"] # <<>>

\* C12 as stated: for every queue, the handler that enqueues and the handler
\* that dequeues are two distinct handlers, one of each, and nothing else
\* changes a queue.
C12_DistinctHandlers ==
    [][ \A n \in QueueNames :
          /\ QueueChangesByRole(n)
          /\ Cardinality(producers'[n]) <= 1
          /\ Cardinality(consumers'[n]) <= 1
          /\ producers'[n] \cap consumers'[n] = {}
      ]_vars

\* C13: every handler invocation terminates: a handler in execution can
\* always take its next step towards its return; the only place where it
\* waits is the SPI1 handler's busy-wait, while BSY is asserted, and there
\* the hardware can still bring BSY down.  Stated of the invocations that
\* were entered on an interrupt request.
C13_RunToCompletion ==
    (stack # <<>> /\ byIrq)
    => \/ ENABLED HandlerStep
       \/ /\ fw = "controller" /\ At("SPI1", "bsy") /\ spi1.bsy
          /\ ENABLED (SpiTxReady \/ SpiTransferDone)

\* C14: when a receive path reads a unit and the enqueue fails on a full
\* queue, the unit is dropped and nothing else changes: the queues, every
\* interrupt-enable bit and SPI1's SPE keep their values (of the registers
\* only the receive flag changes, cleared by the read), no register is
\* written, and the handler goes on to its next block without a retry.
C14_FullQueueFrame ==
    [][ /\ ( /\ fw = "controller" /\ At("USART2", "rx") /\ pc'["USART2"] # "rx"
             /\ usart2.rxne /\ is_full(TX_BUFFER.q) )
           => /\ UNCHANGED <<statics, spi1, accepted, written, nWrites>>
              /\ usart2' = [usart2 EXCEPT !.rxne = FALSE]
              /\ dropped' = [dropped EXCEPT !["TX"] = Append(@, usart2.rdr)]
              /\ pc'["USART2"] = "ore"
        /\ ( /\ fw = "controller" /\ At("SPI1", "rx") /\ pc'["SPI1"] # "rx"
             /\ spi1.rxne /\ is_full(RX_BUFFER.q) )
           => /\ UNCHANGED <<statics, usart2, accepted, written, nWrites>>
              /\ spi1' = [spi1 EXCEPT !.rxne = FALSE]
              /\ dropped' = [dropped EXCEPT !["RX"] = Append(@, spi1.dr)]
              /\ pc'["SPI1"] = "ret"
        /\ ( /\ fw = "peripheral" /\ At("SPI1", "rx") /\ pc'["SPI1"] # "rx"
             /\ RXP(spi1) /\ is_full(BUFFER.q) )
           => /\ UNCHANGED <<statics, accepted, written, nWrites>>
              /\ spi1' = [spi1 EXCEPT !.rxfifo = Tail(@)]
              /\ pc'["SPI1"] = "tx"
      ]_vars

\* C14 witness: the SPI1 handler has just dropped a unit on the full rx
\* buffer and is at its return
C14_Witness ==
    /\ fw = "controller" /\ At("SPI1", "ret")
    /\ lastOp = "enqueue_err" /\ is_full(RX_BUFFER.q)
    /\ dropped["RX"] # <<>>

\* C15: when a transmit path finds transmit-ready asserted and the queue
\* empty, it clears its own peripheral's transmit-interrupt-enable bit and
\* writes no unit to the transmit register (the flag stays asserted); and
\* once a consumer's transmit path is done, its enable bit is not set over an
\* empty queue.
C15_EmptyQueueDisarm ==
    [][ /\ ( /\ fw = "controller" /\ At("USART2", "tx") /\ pc'["USART2"] # "tx"
             /\ usart2.txe /\ is_empty(RX_BUFFER.q) )
           => /\ ~usart2'.txeie /\ usart2'.txe
              /\ UNCHANGED <<statics, written>>
              /\ lastOp' = "dequeue_none"
        /\ ( /\ fw = "controller" /\ At("SPI1", "tx") /\ pc'["SPI1"] # "tx"
             /\ spi1.txe /\ is_empty(TX_BUFFER.q) )
           => /\ ~spi1'.txeie /\ spi1'.txe
              /\ UNCHANGED <<statics, written, window>>
              /\ lastOp' = "dequeue_none"
        /\ ( /\ fw = "peripheral" /\ At("SPI1", "tx") /\ pc'["SPI1"] # "tx"
             /\ TXP(spi1) /\ is_empty(BUFFER.q) )
           => /\ ~spi1'.txpie /\ spi1'.txfifo = spi1.txfifo
              /\ UNCHANGED <<statics, written>>
              /\ lastOp' = "dequeue_none"
        /\ (fw = "controller" /\ pc'["USART2"] \in {"rx", "ore", "ret"})
           => (usart2'.txeie => ~is_empty(RX_BUFFER'.q))
        /\ (fw = "controller" /\ pc'["SPI1"] \in {"rx", "ret"})
           => (spi1'.txeie => ~is_empty(TX_BUFFER'.q))
        /\ (fw = "peripheral" /\ pc'["SPI1"] \in {"udr", "ret"})
           => (spi1'.txpie => ~is_empty(BUFFER'.q))
      ]_vars

\* C15 witness: the USART2 handler, entered on a request, found TXE asserted
\* and the rx buffer empty, and is past its transmit path with TXEIE clear
C15_Witness ==
    /\ fw = "controller" /\ At("USART2", "rx") /\ byIrq
    /\ lastOp = "dequeue_none"
    /\ usart2.txe /\ ~usart2.txeie

\* C16: whenever the SPI1 handler clears SPE, on the dequeue-success path
\* (after the busy wait) and on the dequeue-empty path alike, BSY is not
\* asserted.
C16_DisableAfterBusy ==
    [][ /\ (fw = "controller" /\ At("SPI1", "bsy") /\ pc'["SPI1"] # "bsy")
           => (~spi1.bsy /\ ~spi1'.spe /\ ~spi1'.bsy)
        /\ ( /\ fw = "controller" /\ At("SPI1", "tx") /\ pc'["SPI1"] = "rx"
             /\ spi1.txe )
           => (~spi1.bsy /\ ~spi1'.spe /\ ~spi1'.bsy)
      ]_vars

\* C16 witness: the SPI1 handler was entered while the master was clocking
\* out a unit that had been written with SPE disabled, wrote the next unit,
\* waited, and has disabled SPI1 with BSY clear
C16_Witness ==
    /\ fw = "controller" /\ At("SPI1", "rx")
    /\ lastOp = "dequeue_some"
    /\ window.last = "enabled" /\ Len(written["TX"]) >= 3
    /\ ~spi1.spe /\ ~spi1.bsy /\ ~spi1.pend

\* the handler is entered on its pending request
DispatchIrq(h) == Dispatch(h) /\ IrqPending(h)

\* The firmware on the short input streams, with the scheduling the
\* hardware gives: a running handler executes its next step, a pending
\* request is dispatched once no handler runs, and the peripherals raise
\* transmit-ready again after a write and drop BSY after a transfer.
LiveSpec ==
    /\ InitWith(ShortInputs)
    /\ [][Next]_vars
    /\ WF_vars(Main)
    /\ WF_vars(HandlerStep)
    /\ \A h \in Handlers : SF_vars(DispatchIrq(h))
    /\ WF_vars(UsartTxReady)
    /\ WF_vars(SpiTxReady)
    /\ WF_vars(SpiTransferDone)

\* C17: every unit accepted into a queue is eventually dequeued and written
\* to the consumer's transmit register: a queue that holds units always
\* comes to hold none (the inputs are finite and the queues FIFO, so this is
\* the same as every accepted unit being written).
C17_RelayLiveness ==
    \A n \in QueueNames : (Held(n) > 0) ~> (Held(n) = 0)

\* C17 witness: the bridge at rest with every unit of both streams accepted,
\* dequeued and written, in order
C17_Witness ==
    /\ fw = "controller" /\ Idle
    /\ written["TX"] = Scenario1Units /\ written["RX"] = SpiShortUnits
    /\ is_empty(TX_BUFFER.q) /\ is_empty(RX_BUFFER.q)

\* the units that arrive on the line feeding queue n
UnitsOf(n) ==
    IF n = "TX"
    THEN {Scenario1Units[i] : i \in 1..Len(Scenario1Units)} \cup 1..MaxUnits
    ELSE IF n = "RX"
         THEN {SpiShortUnits[i] : i \in 1..Len(SpiShortUnits)}
              \cup {SpiLongUnits[i] : i \in 1..MaxSpiUnits}
         ELSE {Scenario4Units[i] : i \in 1..Len(Scenario4Units)} \cup 1..MaxEchoUnits

----------------------------------------------------------------------------
(* The bridge with USART2 at a higher priority than SPI1: the USART2        *)
(* handler may preempt the SPI1 handler between any two of its queue or     *)
(* register operations.  The SPI1 handler is taken one operation at a time, *)
(* its position named after the source line it is about to execute; the    *)
(* USART2 handler is never preempted and keeps its steps.                   *)

\* the bridge on Scenario 1's units, with two units arriving on the SPI side
PreemptInputs == { <<"controller", Scenario1Units, SpiShortUnits, TRUE>> }

\* USART2's request is taken while the SPI1 handler is in execution
Preempt ==
    /\ fw = "controller" /\ ~panicked
    /\ "USART2" \in unmasked
    /\ stack = <<"SPI1">>
    /\ IrqPending("USART2")
    /\ stack' = <<"SPI1", "USART2">>
    /\ pc' = [pc EXCEPT !["USART2"] = "entry"]
    /\ byIrq' = TRUE
    /\ quiet' = FALSE
    /\ nWrites' = 0
    /\ lastOp' = "none"
    /\ entryConds' = Asserted("USART2", usart2, spi1)
    /\ serviced' = {}
    /\ UNCHANGED <<config, statics, boot, hw, panicked, inputs, hist>>

\* one operation of the SPI1 handler: new SPI1 and USART2 registers, new tx
\* and rx buffers, the unit written to DR (if any), the units accepted and
\* dropped on the rx buffer, and the line to go on with
SPI1_op(s, u, txb, rxb, out, acc, drop, line) ==
    /\ spi1' = s
    /\ usart2' = u
    /\ TX_BUFFER' = SomeQueue(txb)
    /\ RX_BUFFER' = SomeQueue(rxb)
    /\ written' = [written EXCEPT !["TX"] = @ \o out]
    /\ accepted' = [accepted EXCEPT !["RX"] = @ \o acc]
    /\ dropped' = [dropped EXCEPT !["RX"] = @ \o drop]
    /\ peak' = [peak EXCEPT !["RX"] = Max(@, len(rxb))]
    /\ pc' = [pc EXCEPT !["SPI1"] = line]
    /\ UNCHANGED <<config, USART2_PERIPHERAL, SPI1_PERIPHERAL, BUFFER, boot,
                   stack, panicked, inputs, wire, window, producers, consumers,
                   invo>>

\* an operation that only moves on to `line`
SPI1_goto(line) ==
    SPI1_op(spi1, usart2, TX_BUFFER.q, RX_BUFFER.q, <<>>, <<>>, <<>>, line)

\* an operation that writes the SPI1 registers `s` and moves on to `line`
SPI1_reg(s, line) ==
    SPI1_op(s, usart2, TX_BUFFER.q, RX_BUFFER.q, <<>>, <<>>, <<>>, line)

\* line 64: if spi1.sr.read().txe().bit_is_set()
SPI1_l64 ==
    /\ fw = "controller" /\ At("SPI1", "tx")
    /\ SPI1_goto(IF spi1.txe THEN "l65" ELSE "l82")

\* line 65: match tx_buffer.dequeue()
SPI1_l65 ==
    /\ fw = "controller" /\ At("SPI1", "l65")
    /\ LET r == dequeue(TX_BUFFER.q)
       IN  SPI1_op(spi1, usart2, r.q, RX_BUFFER.q, <<>>, <<>>, <<>>,
                   IF r.some THEN "l67" ELSE "l75")

\* line 67: spi1.dr.write(byte), the unit line 65 took off the ring
SPI1_l67 ==
    /\ fw = "controller" /\ At("SPI1", "l67")
    /\ LET byte == TX_BUFFER.q.buffer[(TX_BUFFER.q.head + N - 1) % N]
       IN  SPI1_op([spi1 EXCEPT !.txe = FALSE, !.pend = TRUE,
                                !.bsy = spi1.bsy \/ spi1.spe],
                   usart2, TX_BUFFER.q, RX_BUFFER.q, <<byte>>, <<>>, <<>>, "l68")

\* line 68: while spi1.sr.read().bsy().bit_is_set() {}
SPI1_l68 ==
    /\ fw = "controller" /\ At("SPI1", "l68")
    /\ ~spi1.bsy
    /\ SPI1_goto("l69")

\* line 69: spi1.cr1.modify(spe disabled)
SPI1_l69 ==
    /\ fw = "controller" /\ At("SPI1", "l69")
    /\ SPI1_reg([spi1 EXCEPT !.spe = FALSE], "l70")

\* line 70: if tx_buffer.is_empty()
SPI1_l70 ==
    /\ fw = "controller" /\ At("SPI1", "l70")
    /\ SPI1_goto(IF is_empty(TX_BUFFER.q) THEN "l71" ELSE "l82")

\* line 71: spi1.cr2.modify(txeie disabled)
SPI1_l71 ==
    /\ fw = "controller" /\ At("SPI1", "l71")
    /\ SPI1_reg([spi1 EXCEPT !.txeie = FALSE], "l82")

\* line 75: spi1.cr1.modify(spe disabled)
SPI1_l75 ==
    /\ fw = "controller" /\ At("SPI1", "l75")
    /\ SPI1_reg([spi1 EXCEPT !.spe = FALSE], "l76")

\* line 76: spi1.cr2.modify(txeie disabled)
SPI1_l76 ==
    /\ fw = "controller" /\ At("SPI1", "l76")
    /\ SPI1_reg([spi1 EXCEPT !.txeie = FALSE], "l82")

\* line 82: if spi1.sr.read().rxne().bit_is_set()
SPI1_l82 ==
    /\ fw = "controller" /\ At("SPI1", "l82")
    /\ SPI1_goto(IF spi1.rxne THEN "l83" ELSE "ret")

\* lines 83-84: read DR and enqueue the unit onto the rx buffer
SPI1_l83 ==
    /\ fw = "controller" /\ At("SPI1", "l83")
    /\ LET received_byte == spi1.dr
           e == enqueue(RX_BUFFER.q, received_byte)
       IN  SPI1_op([spi1 EXCEPT !.rxne = FALSE], usart2, TX_BUFFER.q, e.q, <<>>,
                   IF e.ok THEN <<received_byte>> ELSE <<>>,
                   IF e.ok THEN <<>> ELSE <<received_byte>>,
                   IF e.ok THEN "l85" ELSE "ret")

\* line 85: usart2.cr1.modify(txeie enabled)
SPI1_l85 ==
    /\ fw = "controller" /\ At("SPI1", "l85")
    /\ SPI1_op(spi1, [usart2 EXCEPT !.txeie = TRUE], TX_BUFFER.q, RX_BUFFER.q,
               <<>>, <<>>, <<>>, "ret")

SPI1_lines ==
    \/ Ctl_SPI1_entry
    \/ SPI1_l64 \/ SPI1_l65 \/ SPI1_l67 \/ SPI1_l68 \/ SPI1_l69 \/ SPI1_l70
    \/ SPI1_l71 \/ SPI1_l75 \/ SPI1_l76 \/ SPI1_l82 \/ SPI1_l83 \/ SPI1_l85
    \/ Ctl_SPI1_ret

Ctl_main ==
    \/ Ctl_main_l178 \/ Ctl_main_l179 \/ Ctl_main_l181
    \/ Ctl_main_l182 \/ Ctl_main_l183 \/ Ctl_main_l184

Ctl_hardware ==
    \/ UsartReceive \/ UsartTxReady
    \/ SpiReceive \/ SpiTxReady \/ SpiTransferDone

PreemptNext ==
    \/ Ctl_main
    \/ Ctl_hardware
    \/ \E h \in Handlers : Dispatch(h)
    \/ Preempt
    \/ Ctl_USART2
    \/ SPI1_lines

PreemptSpec == InitWith(PreemptInputs) /\ [][PreemptNext]_vars

============================================================================
